---- MODULE Spec2Model ----
(***************************************************************************)
(* Student-context MCP server: the Domain Store (student_store,            *)
(* enrollment_store, topic_store) and the five lookups of server.py,       *)
(* get_student_info, get_class_schedule, get_next_class_time,              *)
(* get_course_current_topic and get_course_covered_topics.                 *)
(*                                                                         *)
(* Python values are modelled as records.  A model instance carries its    *)
(* class in the field cls; a dict (an envelope, the result of model_dump)  *)
(* is a record whose DOMAIN is the set of its keys.  None is the record    *)
(* [cls |-> "NoneType"]; an Optional[str] value is None or Str(s).         *)
(***************************************************************************)
EXTENDS Integers, Sequences, FiniteSets, TLC

VARIABLES
    student_store,     \* Data/dummy_data.py: list of Student
    enrollment_store,  \* Data/dummy_data.py: list of Enrollment
    topic_store,       \* Data/dummy_data.py: list of CurrentTopic
    pc,                \* position of the request being served
    op,                \* operation name of the request being served
    args,              \* its arguments
    student,           \* local `student` of the handler
    enrollment,        \* local `enrollment` / `schedule_info` of the handler
    topic,             \* local `topic` of the handler
    ret,               \* how the call ended: nothing yet, a returned dict, a raised exception
    fault,             \* where an exception was raised inside the call ("none" if nowhere)
    request,           \* what the transport received: a tool call or a resource read
    interleaved,       \* TRUE once the request shared its time with another one in flight
    suspended,         \* frame of a second request, waiting for its turn to run
    remembered,        \* an earlier request and how it ended, kept by its caller
    constructed,       \* Enrollment(**kw): the keyword arguments and the instance built
    client             \* client/alternative_client.py: the run of main()

vars == <<student_store, enrollment_store, topic_store, pc, op, args,
          student, enrollment, topic, ret, fault,
          request, interleaved, suspended, remembered, constructed, client>>

stores == <<student_store, enrollment_store, topic_store>>

\* What no statement of a handler touches.
outside == <<request, interleaved, suspended, remembered, constructed, client>>

-----------------------------------------------------------------------------
(* Bounds of the model *)

MaxStudents == 2
MaxEnrollments == 2
MaxTopics == 2
NumUuidDraws == 2

-----------------------------------------------------------------------------
(* Python values *)

None == [cls |-> "NoneType"]

Str(s) == [cls |-> "str", value |-> s]

\* Python truthiness of an Optional[str]: None and "" are falsy.
StrTruthy(x) == x # None /\ x.value # ""

\* Python truthiness of an Optional[model instance / datetime]: only None is falsy
\* (BaseModel and datetime define neither __bool__ nor __len__).
Truthy(x) == x # None

datetime(y, mo, d, h, mi) ==
    [cls |-> "datetime", year |-> y, month |-> mo, day |-> d,
     hour |-> h, minute |-> mi, second |-> 0]

Digit(n) ==
    CASE n = 0 -> "0" [] n = 1 -> "1" [] n = 2 -> "2" [] n = 3 -> "3"
      [] n = 4 -> "4" [] n = 5 -> "5" [] n = 6 -> "6" [] n = 7 -> "7"
      [] n = 8 -> "8" [] n = 9 -> "9"

Pad2(n) == <<Digit((n \div 10) % 10), Digit(n % 10)>>

Pad4(n) == <<Digit((n \div 1000) % 10), Digit((n \div 100) % 10)>> \o Pad2(n % 100)

\* str(dt) in place of dt.isoformat(): a space where ISO-8601 has the "T".
isoformat_space(dt) ==
    Pad4(dt.year) \o <<"-">> \o Pad2(dt.month) \o <<"-">> \o Pad2(dt.day)
    \o <<" ">> \o Pad2(dt.hour) \o <<":">> \o Pad2(dt.minute)
    \o <<":">> \o Pad2(dt.second)

\* datetime.isoformat() of a naive datetime with microsecond 0:
\* "YYYY-MM-DDTHH:MM:SS", as the sequence of its characters.
isoformat(dt) ==
    Pad4(dt.year) \o <<"-">> \o Pad2(dt.month) \o <<"-">> \o Pad2(dt.day)
    \o <<"T">> \o Pad2(dt.hour) \o <<":">> \o Pad2(dt.minute)
    \o <<":">> \o Pad2(dt.second)

\* uuid4(): the n-th identifier drawn in a process whose random stream is `draw`.
uuid4(draw, n) == [cls |-> "UUID", draw |-> draw, n |-> n]

-----------------------------------------------------------------------------
(* Models/pydantic_models.py *)

CourseCode == {"AI-101", "AI-201", "AI-202", "AI-301"}

CourseSection == {"A", "B", "C"}

Weekday == {"Monday", "Tuesday", "Wednesday", "Thursday", "Friday", "Saturday", "Sunday"}

Todo(id, description, due_date) ==
    [cls |-> "Todo", id |-> id, description |-> description, due_date |-> due_date]

Student(id, name, email, phone, course_code) ==
    [cls |-> "Student", id |-> id, name |-> name, email |-> email,
     phone |-> phone, course_code |-> course_code]

ClassSchedule(day, time) == [cls |-> "ClassSchedule", day |-> day, time |-> time]

\* The table with no title for AI-301.
_course_titles_without_301 ==
    [c \in CourseCode \ {"AI-301"} |->
        CASE c = "AI-101" -> Str("Modern AI Python Programming")
          [] c = "AI-201" -> Str("Fundamentals of Agentic AI and DACA AI-First Development")
          [] c = "AI-202" -> Str("DACA Cloud-First Agentic AI Development")]

_course_titles ==
    [c \in CourseCode |->
        CASE c = "AI-101" -> Str("Modern AI Python Programming")
          [] c = "AI-201" -> Str("Fundamentals of Agentic AI and DACA AI-First Development")
          [] c = "AI-202" -> Str("DACA Cloud-First Agentic AI Development")
          [] c = "AI-301" -> Str("DACA Planet-Scale Distributed AI Agents")]

\* dict.get: None for a missing key.
course_titles_get(c) == IF c \in DOMAIN _course_titles THEN _course_titles[c] ELSE None

\* The validator not run: the course_name stays as it was given.
set_course_name_unfilled(self) == self

\* The after-validator of Enrollment.
set_course_name(self) ==
    IF ~StrTruthy(self.course_name)
    THEN [self EXCEPT !.course_name = course_titles_get(self.course_code)]
    ELSE self

\* Enrollment(**kw): kw holds every field (defaults already filled in); the
\* validator runs on the constructed instance.
Enrollment(kw) ==
    set_course_name(
        [cls |-> "Enrollment", id |-> kw.id, course_code |-> kw.course_code,
         section |-> kw.section, course_name |-> kw.course_name,
         instructor |-> kw.instructor, schedule |-> kw.schedule,
         last_class_date |-> kw.last_class_date,
         last_class_covered |-> kw.last_class_covered, todos |-> kw.todos,
         covered_topics |-> kw.covered_topics,
         next_class_time |-> kw.next_class_time])

CurrentTopic(course_code, topic_text, start_date) ==
    [cls |-> "CurrentTopic", course_code |-> course_code, topic |-> topic_text,
     start_date |-> start_date]

\* BaseModel.model_dump(): the instance as a dict, nested models dumped too,
\* enum members, datetimes and UUIDs kept as they are.
Todo_model_dump(t) ==
    [id |-> t.id, description |-> t.description, due_date |-> t.due_date]

ClassSchedule_model_dump(s) == [day |-> s.day, time |-> s.time]

Student_model_dump(s) ==
    [id |-> s.id, name |-> s.name, email |-> s.email, phone |-> s.phone,
     course_code |-> s.course_code]

Enrollment_model_dump(e) ==
    [id |-> e.id, course_code |-> e.course_code, section |-> e.section,
     course_name |-> e.course_name, instructor |-> e.instructor,
     schedule |-> [i \in DOMAIN e.schedule |-> ClassSchedule_model_dump(e.schedule[i])],
     last_class_date |-> e.last_class_date,
     last_class_covered |-> e.last_class_covered,
     todos |-> [i \in DOMAIN e.todos |-> Todo_model_dump(e.todos[i])],
     covered_topics |-> e.covered_topics,
     next_class_time |-> e.next_class_time]

CurrentTopic_model_dump(t) ==
    [course_code |-> t.course_code, topic |-> t.topic, start_date |-> t.start_date]

-----------------------------------------------------------------------------
(* Data/dummy_data.py: the seed records, and further records of the same   *)
(* classes from which the stores of a run are drawn.                       *)

seed_student ==
    Student("S123", "Ayaan Qureshi", "ayaan.qureshi@example.com", "+923001112233", "AI-101")

\* Keyword arguments of the seed Enrollment(...); id and the todo ids are
\* drawn by uuid4 when the store is built.
seed_enrollment_kw ==
    [course_code |-> "AI-101", section |-> "A", course_name |-> None,
     instructor |-> "Sajid Khan",
     schedule |-> <<ClassSchedule("Monday", "10:00 AM - 11:30 AM"),
                    ClassSchedule("Wednesday", "10:00 AM - 11:30 AM")>>,
     last_class_date |-> datetime(2025, 6, 2, 10, 0),
     last_class_covered |-> "Introduction to Python",
     todos |-> <<[description |-> "Complete assignment 1", due_date |-> datetime(2025, 6, 10, 0, 0)],
                 [description |-> "Read chapter 3", due_date |-> datetime(2025, 6, 10, 0, 0)]>>,
     covered_topics |-> <<"Python Basics", "Introduction to Variables">>,
     next_class_time |-> datetime(2025, 6, 9, 10, 0)]

seed_topic == CurrentTopic("AI-101", "Introduction to Lists", datetime(2025, 6, 2, 0, 0))

\* Students a store may hold (ids are unique across a store).
StudentPool ==
    {seed_student,
     Student("S456", "Sara Malik", "sara.malik@example.com", "+923004445566", "AI-201")}

\* Enrollments a store may hold: the seed one, a second section of the same
\* course with an explicit course_name and no next_class_time, and an
\* enrollment of another course.
EnrollmentKwPool ==
    {seed_enrollment_kw,
     [course_code |-> "AI-101", section |-> "B", course_name |-> Str("Python Evening Batch"),
      instructor |-> "Hina Raza",
      schedule |-> <<ClassSchedule("Friday", "6:00 PM - 7:30 PM")>>,
      last_class_date |-> None,
      last_class_covered |-> "Orientation",
      todos |-> <<>>,
      covered_topics |-> <<"Orientation">>,
      next_class_time |-> None],
     [course_code |-> "AI-201", section |-> "A", course_name |-> None,
      instructor |-> "Omar Farooq",
      schedule |-> <<ClassSchedule("Tuesday", "2:00 PM - 3:30 PM")>>,
      last_class_date |-> datetime(2025, 6, 3, 14, 0),
      last_class_covered |-> "Agent Loop",
      todos |-> <<[description |-> "Build a tool", due_date |-> None]>>,
      covered_topics |-> <<"Agent Loop", "Tools">>,
      next_class_time |-> datetime(2025, 12, 31, 23, 59)]}

\* Topics a store may hold: the seed one and a second record for the same course.
TopicPool ==
    {seed_topic, CurrentTopic("AI-101", "Dictionaries", None)}

\* Sequences over S of length at most n in which no element occurs twice.
InjSeqs(S, n) ==
    {s \in UNION {[1..k -> S] : k \in 0..n} :
        \A i, j \in DOMAIN s : i # j => s[i] # s[j]}

\* The enrollment list built at import time from keyword records kws, the
\* process drawing its uuids from stream `draw`.
build_enrollment_store(kws, draw) ==
    [i \in DOMAIN kws |->
        Enrollment(
            [course_code |-> kws[i].course_code, section |-> kws[i].section,
             course_name |-> kws[i].course_name, instructor |-> kws[i].instructor,
             schedule |-> kws[i].schedule,
             last_class_date |-> kws[i].last_class_date,
             last_class_covered |-> kws[i].last_class_covered,
             covered_topics |-> kws[i].covered_topics,
             next_class_time |-> kws[i].next_class_time,
             id |-> uuid4(draw, <<i, 0>>),
             todos |-> [j \in DOMAIN kws[i].todos |->
                          Todo(uuid4(draw, <<i, j>>), kws[i].todos[j].description,
                               kws[i].todos[j].due_date)]])]

UuidDraws == 1..NumUuidDraws

\* The stores exactly as dummy_data.py seeds them.
SeedData ==
    /\ student_store = <<seed_student>>
    /\ \E d \in UuidDraws : enrollment_store = build_enrollment_store(<<seed_enrollment_kw>>, d)
    /\ topic_store = <<seed_topic>>

-----------------------------------------------------------------------------
(* server.py: helpers *)

\* The scan keeping the last element that matches instead of the first.
next_or_none_last(seq, hits) ==
    IF hits # {}
    THEN seq[CHOOSE i \in hits : \A j \in hits : i >= j]
    ELSE None

\* next((x for x in seq if cond(x)), None): the first element that matches,
\* `hits` being the positions of seq whose element satisfies cond.
next_or_none(seq, hits) ==
    IF hits # {}
    THEN seq[CHOOSE i \in hits : \A j \in hits : i <= j]
    ELSE None

\* find_student: `raised` says whether the scan raised an exception, which
\* the helper catches itself, answering None.
find_student(student_id, raised) ==
    IF raised
    THEN None
    ELSE next_or_none(student_store,
                               {i \in DOMAIN student_store :
                                   student_store[i].id = student_id})

\* find_enrollment with the course-code filter lost: the first enrollment of
\* the store, whatever its course.
find_enrollment_unfiltered(course_code, raised) ==
    IF raised
    THEN None
    ELSE next_or_none(enrollment_store,
                               {i \in DOMAIN enrollment_store :
                                   TRUE})

\* find_enrollment answering the enrollment stored last for the course.
find_enrollment_last(course_code, raised) ==
    IF raised
    THEN None
    ELSE LET hits == {i \in DOMAIN enrollment_store :
                         enrollment_store[i].course_code = course_code}
         IN  IF hits # {}
             THEN enrollment_store[CHOOSE i \in hits : \A j \in hits : i >= j]
             ELSE None

\* find_enrollment: as find_student, keyed on the course code alone.
find_enrollment(course_code, raised) ==
    IF raised
    THEN None
    ELSE next_or_none(enrollment_store,
                               {i \in DOMAIN enrollment_store :
                                   enrollment_store[i].course_code = course_code})

\* A failure envelope that also carries a data payload.
Failure_with_data(code, message) ==
    [success |-> FALSE, data |-> [detail |-> message],
     error |-> [code |-> code, message |-> message]]

\* The dict literals the handlers return.
Failure(code, message) ==
    [success |-> FALSE, error |-> [code |-> code, message |-> message]]

Success(data) == [success |-> TRUE, data |-> data]

\* How a call ends.
NotEnded == [kind |-> "none"]

Returned(envelope) == [kind |-> "returned", value |-> envelope]

Raised == [kind |-> "raised"]

\* The `except Exception` clause of each tool handler.
ExceptInternalError(operation) ==
    Failure("INTERNAL_ERROR",
            CASE operation = "get_class_schedule" -> <<"Failed to fetch schedule">>
              [] operation = "get_next_class" -> <<"Failed to fetch next class time">>
              [] operation = "get_course_topic" -> <<"Failed to fetch current topic">>
              [] operation = "get_covered_topics" -> <<"Failed to fetch covered topics">>)

-----------------------------------------------------------------------------
(* Requests *)

StudentIds == {"S123", "S456", "NOPE"}

Operations ==
    {"get_student_profile", "get_class_schedule", "get_next_class",
     "get_course_topic", "get_covered_topics"}

\* @mcp.resource(uri="students://{student_id}/profile"): a URI is its scheme
\* and the segments that follow "://"; a segment of a template is a literal
\* or a parameter.
uri_template ==
    [scheme |-> "students",
     segments |-> << [param |-> "student_id"], [literal |-> "profile"] >>]

Uri(scheme, segments) == [scheme |-> scheme, segments |-> segments]

\* A template matches a URI of the same scheme whose segments are the
\* template's literals, with any one segment in the place of a parameter.
matches(template, uri) ==
    /\ uri.scheme = template.scheme
    /\ Len(uri.segments) = Len(template.segments)
    /\ \A i \in DOMAIN template.segments :
          "literal" \in DOMAIN template.segments[i]
             => uri.segments[i] = template.segments[i].literal

\* The segment standing where the template has {student_id}.
bind(template, uri) ==
    uri.segments[CHOOSE i \in DOMAIN template.segments :
                    "param" \in DOMAIN template.segments[i]]

\* @mcp.tool() without name= registers a function under its own name.
tools_by_function_name ==
    [get_class_schedule |-> "get_class_schedule",
     get_next_class_time |-> "get_next_class_time",
     get_course_current_topic |-> "get_course_current_topic",
     get_course_covered_topics |-> "get_course_covered_topics"]

\* @mcp.tool(name=...): registered name |-> handler function.
tools ==
    [get_class_schedule |-> "get_class_schedule",
     get_next_class |-> "get_next_class_time",
     get_course_topic |-> "get_course_current_topic",
     get_covered_topics |-> "get_course_covered_topics"]

\* A parameter annotated str takes any string.
validate_enum_as_str(value, members) == TRUE

\* A parameter annotated with an Enum takes the values of its members only.
validate_enum(value, members) == value \in members

\* What callers send.
Uris ==
    {Uri("students", <<id, "profile">>) : id \in StudentIds}
    \cup {Uri("student", <<"S123", "profile">>),
          Uri("students", <<"S123">>),
          Uri("students", <<"S123", "schedule">>),
          Uri("students", <<"S123", "covered_topics">>)}

ToolNames ==
    {"get_class_schedule", "get_next_class", "get_course_topic",
     "get_covered_topics", "get_student_profile", "get_next_class_time"}

SentCourseCodes == CourseCode \cup {"AI-999"}

SentSections == CourseSection \cup {"D"}

SentArguments ==
    [course_code : SentCourseCodes, section : SentSections]
    \cup [course_code : SentCourseCodes]
    \cup [student_id : StudentIds]

\* The parameters of each handler function's signature.
parameters ==
    [get_class_schedule |-> {"course_code", "section"},
     get_next_class_time |-> {"course_code", "section"},
     get_course_current_topic |-> {"course_code"},
     get_course_covered_topics |-> {"student_id"}]

ReadResource(uri) == [kind |-> "resource", uri |-> uri]

CallTool(name, arguments) == [kind |-> "tool", name |-> name, arguments |-> arguments]

InFlight(position) == position \notin {"idle", "done", "rejected"}

\* The transport dispatches a request to its handler.
Dispatched(operation, arguments, first) ==
    /\ pc' = first
    /\ op' = operation
    /\ args' = arguments
    /\ interleaved' = InFlight(suspended.pc)
    /\ UNCHANGED <<stores, suspended, remembered, constructed, client,
                   student, enrollment, topic, ret, fault>>

\* The transport answers with a protocol error; no handler runs.
Rejected == [kind |-> "rejected"]

Reject(received) ==
    /\ pc' = "rejected"
    /\ request' = received
    /\ ret' = Rejected
    /\ UNCHANGED <<stores, interleaved, suspended, remembered, constructed, client,
                   op, args, student, enrollment, topic, fault>>

CallGetStudentInfo(uri) ==
    /\ pc = "idle"
    /\ matches(uri_template, uri)
    /\ request' = ReadResource(uri)
    /\ Dispatched("get_student_profile",
                  [student_id |-> bind(uri_template, uri)], "gsi_find_student")

RejectResource(uri) ==
    /\ pc = "idle"
    /\ ~matches(uri_template, uri)
    /\ Reject(ReadResource(uri))

Registered(name, function) == name \in DOMAIN tools /\ tools[name] = function

CallGetClassSchedule(name, course_code, section) ==
    /\ pc = "idle"
    /\ Registered(name, "get_class_schedule")
    /\ validate_enum(course_code, CourseCode)
    /\ validate_enum(section, CourseSection)
    /\ request' = CallTool(name, [course_code |-> course_code, section |-> section])
    /\ Dispatched("get_class_schedule",
                  [course_code |-> course_code, section |-> section], "gcs_scan")

CallGetNextClassTime(name, course_code, section) ==
    /\ pc = "idle"
    /\ Registered(name, "get_next_class_time")
    /\ validate_enum(course_code, CourseCode)
    /\ validate_enum(section, CourseSection)
    /\ request' = CallTool(name, [course_code |-> course_code, section |-> section])
    /\ Dispatched("get_next_class",
                  [course_code |-> course_code, section |-> section], "gnc_scan")

CallGetCourseCurrentTopic(name, course_code) ==
    /\ pc = "idle"
    /\ Registered(name, "get_course_current_topic")
    /\ validate_enum(course_code, CourseCode)
    /\ request' = CallTool(name, [course_code |-> course_code])
    /\ Dispatched("get_course_topic", [course_code |-> course_code], "gct_scan")

CallGetCourseCoveredTopics(name, student_id) ==
    /\ pc = "idle"
    /\ Registered(name, "get_course_covered_topics")
    /\ request' = CallTool(name, [student_id |-> student_id])
    /\ Dispatched("get_covered_topics", [student_id |-> student_id], "gcc_find_student")

\* A tool call whose name is not registered.
RejectUnknownTool(name, arguments) ==
    /\ pc = "idle"
    /\ name \notin DOMAIN tools
    /\ Reject(CallTool(name, arguments))

\* A tool call whose arguments fail the validation of the handler's signature.
RejectArguments(name, arguments) ==
    /\ pc = "idle"
    /\ name \in DOMAIN tools
    /\ DOMAIN arguments = parameters[tools[name]]
    /\ \/ /\ "course_code" \in DOMAIN arguments
          /\ ~validate_enum(arguments.course_code, CourseCode)
       \/ /\ "section" \in DOMAIN arguments
          /\ ~validate_enum(arguments.section, CourseSection)
    /\ Reject(CallTool(name, arguments))

\* The handler returns `envelope`.
Return(envelope) == pc' = "done" /\ ret' = Returned(envelope)

\* The handler goes on to its next statement.
Goto(next) == pc' = next /\ ret' = ret

\* Records where an exception was raised inside the call.
Note(raised, where) == fault' = IF raised THEN where ELSE fault

-----------------------------------------------------------------------------
(* server.py: get_student_info (resource students://{student_id}/profile). *)
(* The handler has no try/except of its own.                               *)

GsiFindStudent(raised) ==
    /\ pc = "gsi_find_student"
    /\ student' = find_student(args.student_id, raised)
    /\ IF ~Truthy(student')
       THEN Return(Failure("STUDENT_NOT_FOUND", <<"Student not found">>))
       ELSE Goto("gsi_find_enrollment")
    /\ Note(raised, "student_scan")
    /\ UNCHANGED <<stores, outside, op, args, enrollment, topic>>

\* GsiFindEnrollment with the error dict pasted from the student check.
GsiFindEnrollment_pasted_code(raised) ==
    /\ pc = "gsi_find_enrollment"
    /\ enrollment' = find_enrollment(student.course_code, raised)
    /\ IF ~Truthy(enrollment')
       THEN Return(Failure("STUDENT_NOT_FOUND", <<"Student not found">>))
       ELSE Goto("gsi_dump")
    /\ Note(raised, "enrollment_scan")
    /\ UNCHANGED <<stores, outside, op, args, student, topic>>

GsiFindEnrollment(raised) ==
    /\ pc = "gsi_find_enrollment"
    /\ enrollment' = find_enrollment(student.course_code, raised)
    /\ IF ~Truthy(enrollment')
       THEN Return(Failure("ENROLLMENT_NOT_FOUND",
                           <<"No enrollment found for course ", student.course_code>>))
       ELSE Goto("gsi_dump")
    /\ Note(raised, "enrollment_scan")
    /\ UNCHANGED <<stores, outside, op, args, student, topic>>

\* An exception raised by model_dump leaves the handler uncaught.
GsiDump(raised) ==
    /\ pc = "gsi_dump"
    /\ IF raised
       THEN pc' = "done" /\ ret' = Raised
       ELSE Return(Success([student |-> Student_model_dump(student),
                            enrollment |-> Enrollment_model_dump(enrollment)]))
    /\ Note(raised, "serialization")
    /\ UNCHANGED <<stores, outside, op, args, student, enrollment, topic>>

-----------------------------------------------------------------------------
(* server.py: get_class_schedule (tool get_class_schedule) *)

\* GcsScan with the section test lost: the first enrollment of the course.
GcsScan_course_only(raised) ==
    /\ pc = "gcs_scan"
    /\ IF raised
       THEN enrollment' = enrollment /\ Return(ExceptInternalError(op))
       ELSE /\ enrollment' =
                  next_or_none(enrollment_store,
                               {i \in DOMAIN enrollment_store :
                                   enrollment_store[i].course_code = args.course_code})
            /\ IF ~Truthy(enrollment')
               THEN Return(Failure("SCHEDULE_NOT_FOUND",
                                   <<"No schedule found for ", args.course_code,
                                     " section ", args.section>>))
               ELSE Goto("gcs_dump")
    /\ Note(raised, "enrollment_scan")
    /\ UNCHANGED <<stores, outside, op, args, student, topic>>

\* get_class_schedule failing with the code of the profile lookup.
GcsScan_enrollment_code(raised) ==
    /\ pc = "gcs_scan"
    /\ IF raised
       THEN enrollment' = enrollment /\ Return(ExceptInternalError(op))
       ELSE /\ enrollment' =
                  next_or_none(enrollment_store,
                               {i \in DOMAIN enrollment_store :
                                   /\ enrollment_store[i].course_code = args.course_code
                                   /\ enrollment_store[i].section = args.section})
            /\ IF ~Truthy(enrollment')
               THEN Return(Failure("ENROLLMENT_NOT_FOUND",
                                   <<"No schedule found for ", args.course_code,
                                     " section ", args.section>>))
               ELSE Goto("gcs_dump")
    /\ Note(raised, "enrollment_scan")
    /\ UNCHANGED <<stores, outside, op, args, student, topic>>

GcsScan(raised) ==
    /\ pc = "gcs_scan"
    /\ IF raised
       THEN enrollment' = enrollment /\ Return(ExceptInternalError(op))
       ELSE /\ enrollment' =
                  next_or_none(enrollment_store,
                               {i \in DOMAIN enrollment_store :
                                   /\ enrollment_store[i].course_code = args.course_code
                                   /\ enrollment_store[i].section = args.section})
            /\ IF ~Truthy(enrollment')
               THEN Return(Failure("SCHEDULE_NOT_FOUND",
                                   <<"No schedule found for ", args.course_code,
                                     " section ", args.section>>))
               ELSE Goto("gcs_dump")
    /\ Note(raised, "enrollment_scan")
    /\ UNCHANGED <<stores, outside, op, args, student, topic>>

GcsDump(raised) ==
    /\ pc = "gcs_dump"
    /\ IF raised
       THEN Return(ExceptInternalError(op))
       ELSE Return(Success(
                [course_code |-> args.course_code,
                 section |-> args.section,
                 schedule |-> [i \in DOMAIN enrollment.schedule |->
                                  ClassSchedule_model_dump(enrollment.schedule[i])]]))
    /\ Note(raised, "serialization")
    /\ UNCHANGED <<stores, outside, op, args, student, enrollment, topic>>

-----------------------------------------------------------------------------
(* server.py: get_next_class_time (tool get_next_class) *)

GncScan(raised) ==
    /\ pc = "gnc_scan"
    /\ IF raised
       THEN enrollment' = enrollment /\ Return(ExceptInternalError(op))
       ELSE /\ enrollment' =
                  next_or_none(enrollment_store,
                               {i \in DOMAIN enrollment_store :
                                   /\ enrollment_store[i].course_code = args.course_code
                                   /\ enrollment_store[i].section = args.section})
            /\ IF ~Truthy(enrollment')
               THEN Return(Failure("SCHEDULE_NOT_FOUND",
                                   <<"No schedule found for ", args.course_code,
                                     " section ", args.section>>))
               ELSE Goto("gnc_time")
    /\ Note(raised, "enrollment_scan")
    /\ UNCHANGED <<stores, outside, op, args, student, topic>>

\* get_next_class clearing the next_class_time it has just reported.
GncTime_consuming(raised) ==
    /\ pc = "gnc_time"
    /\ IF raised
       THEN Return(ExceptInternalError(op)) /\ UNCHANGED enrollment_store
       ELSE IF ~Truthy(enrollment.next_class_time)
            THEN /\ Return(Failure("NO_NEXT_CLASS", <<"No upcoming classes scheduled">>))
                 /\ UNCHANGED enrollment_store
            ELSE /\ Return(Success(
                        [course_code |-> args.course_code,
                         section |-> args.section,
                         next_class_time |-> isoformat(enrollment.next_class_time),
                         instructor |-> enrollment.instructor]))
                 /\ LET i == CHOOSE k \in DOMAIN enrollment_store :
                                 enrollment_store[k] = enrollment
                    IN  enrollment_store' =
                            [enrollment_store EXCEPT ![i].next_class_time = None]
    /\ Note(raised, "serialization")
    /\ UNCHANGED <<student_store, topic_store, outside, op, args, student, enrollment, topic>>

GncTime(raised) ==
    /\ pc = "gnc_time"
    /\ IF raised
       THEN Return(ExceptInternalError(op))
       ELSE IF ~Truthy(enrollment.next_class_time)
            THEN Return(Failure("NO_NEXT_CLASS", <<"No upcoming classes scheduled">>))
            ELSE Return(Success(
                     [course_code |-> args.course_code,
                      section |-> args.section,
                      next_class_time |-> isoformat(enrollment.next_class_time),
                      instructor |-> enrollment.instructor]))
    /\ Note(raised, "serialization")
    /\ UNCHANGED <<stores, outside, op, args, student, enrollment, topic>>

-----------------------------------------------------------------------------
(* server.py: get_course_current_topic (tool get_course_topic) *)

GctScan(raised) ==
    /\ pc = "gct_scan"
    /\ IF raised
       THEN topic' = topic /\ Return(ExceptInternalError(op))
       ELSE /\ topic' = next_or_none(topic_store,
                               {i \in DOMAIN topic_store :
                                   topic_store[i].course_code = args.course_code})
            /\ IF ~Truthy(topic')
               THEN Return(Failure("TOPIC_NOT_FOUND",
                                   <<"No current topic found for course ",
                                     args.course_code>>))
               ELSE Goto("gct_dump")
    /\ Note(raised, "topic_scan")
    /\ UNCHANGED <<stores, outside, op, args, student, enrollment>>

GctDump(raised) ==
    /\ pc = "gct_dump"
    /\ IF raised
       THEN Return(ExceptInternalError(op))
       ELSE Return(Success(CurrentTopic_model_dump(topic)))
    /\ Note(raised, "serialization")
    /\ UNCHANGED <<stores, outside, op, args, student, enrollment, topic>>

-----------------------------------------------------------------------------
(* server.py: get_course_covered_topics (tool get_covered_topics) *)

\* find_student catches the exception itself, so the handler's own
\* `except Exception` never sees it.
GccFindStudent(raised) ==
    /\ pc = "gcc_find_student"
    /\ student' = find_student(args.student_id, raised)
    /\ IF ~Truthy(student')
       THEN Return(Failure("STUDENT_NOT_FOUND", <<"Student not found">>))
       ELSE Goto("gcc_scan")
    /\ Note(raised, "student_scan")
    /\ UNCHANGED <<stores, outside, op, args, enrollment, topic>>

\* get_covered_topics keeping the last enrollment its scan meets.
GccScan_last(raised) ==
    /\ pc = "gcc_scan"
    /\ IF raised
       THEN enrollment' = enrollment /\ Return(ExceptInternalError(op))
       ELSE /\ enrollment' =
                  next_or_none_last(enrollment_store,
                               {i \in DOMAIN enrollment_store :
                                   enrollment_store[i].course_code = student.course_code})
            /\ IF ~Truthy(enrollment')
               THEN Return(Failure("ENROLLMENT_NOT_FOUND",
                                   <<"No enrollment found for course ",
                                     student.course_code>>))
               ELSE Goto("gcc_build")
    /\ Note(raised, "enrollment_scan")
    /\ UNCHANGED <<stores, outside, op, args, student, topic>>

GccScan(raised) ==
    /\ pc = "gcc_scan"
    /\ IF raised
       THEN enrollment' = enrollment /\ Return(ExceptInternalError(op))
       ELSE /\ enrollment' =
                  next_or_none(enrollment_store,
                               {i \in DOMAIN enrollment_store :
                                   enrollment_store[i].course_code = student.course_code})
            /\ IF ~Truthy(enrollment')
               THEN Return(Failure("ENROLLMENT_NOT_FOUND",
                                   <<"No enrollment found for course ",
                                     student.course_code>>))
               ELSE Goto("gcc_build")
    /\ Note(raised, "enrollment_scan")
    /\ UNCHANGED <<stores, outside, op, args, student, topic>>

\* get_covered_topics handing out its list with covered_topics.pop() applied
\* to the stored enrollment.
GccBuild_popping(raised) ==
    /\ pc = "gcc_build"
    /\ Return(Success(
           [student_id |-> args.student_id,
            course_code |-> student.course_code,
            course_name |-> enrollment.course_name,
            instructor |-> enrollment.instructor,
            covered_topics |-> enrollment.covered_topics]))
    /\ LET i == CHOOSE k \in DOMAIN enrollment_store : enrollment_store[k] = enrollment
           left == SubSeq(enrollment.covered_topics, 1, Len(enrollment.covered_topics) - 1)
       IN  enrollment_store' = [enrollment_store EXCEPT ![i].covered_topics = left]
    /\ Note(raised, "serialization")
    /\ UNCHANGED <<student_store, topic_store, outside, op, args, student, enrollment, topic>>

GccBuild(raised) ==
    /\ pc = "gcc_build"
    /\ IF raised
       THEN Return(ExceptInternalError(op))
       ELSE Return(Success(
                [student_id |-> args.student_id,
                 course_code |-> student.course_code,
                 course_name |-> enrollment.course_name,
                 instructor |-> enrollment.instructor,
                 covered_topics |-> enrollment.covered_topics]))
    /\ Note(raised, "serialization")
    /\ UNCHANGED <<stores, outside, op, args, student, enrollment, topic>>

-----------------------------------------------------------------------------
(* The caller has the outcome; the handler's frame is gone. *)

\* The frame of a request slot in which nothing runs.
IdleFrame ==
    [pc |-> "idle", op |-> "none", args |-> None, student |-> None,
     enrollment |-> None, topic |-> None, ret |-> NotEnded, fault |-> "none",
     request |-> None, interleaved |-> FALSE]

Finish ==
    /\ pc \in {"done", "rejected"}
    /\ pc' = "idle"
    /\ op' = "none"
    /\ args' = None
    /\ student' = None
    /\ enrollment' = None
    /\ topic' = None
    /\ ret' = NotEnded
    /\ fault' = "none"
    /\ request' = None
    /\ interleaved' = FALSE
    /\ UNCHANGED <<stores, suspended, remembered, constructed, client>>

\* The same, with the caller keeping the request and its outcome to compare
\* later outcomes with.
Remember ==
    /\ pc = "done"
    /\ remembered = None
    /\ remembered' = [request |-> request, ret |-> ret]
    /\ pc' = "idle"
    /\ op' = "none"
    /\ args' = None
    /\ student' = None
    /\ enrollment' = None
    /\ topic' = None
    /\ ret' = NotEnded
    /\ fault' = "none"
    /\ request' = None
    /\ interleaved' = FALSE
    /\ UNCHANGED <<stores, suspended, constructed, client>>

\* The caller keeps the outcome of a profile read.
RememberProfile == op = "get_student_profile" /\ Remember

-----------------------------------------------------------------------------
(* A caller in the server's process holds the dict a handler returned and  *)
(* appends to its covered_topics list.                                     *)

\* The position in enrollment_store of the Enrollment whose covered_topics
\* list is the very list object in the returned dict, 0 if there is none:
\* get_course_covered_topics puts enrollment.covered_topics itself in the
\* dict, get_student_info a dict that model_dump() has built anew.
covered_topics_owner ==
    IF op = "get_covered_topics"
    THEN CHOOSE k \in DOMAIN enrollment_store : enrollment_store[k] = enrollment
    ELSE 0

CallerAppends(item) ==
    /\ pc = "done"
    /\ op \in {"get_covered_topics", "get_student_profile"}
    /\ ret.kind = "returned"
    /\ ret.value.success
    /\ LET returned_list == IF op = "get_covered_topics"
                            THEN ret.value.data.covered_topics
                            ELSE ret.value.data.enrollment.covered_topics
       IN  \A i \in DOMAIN returned_list : returned_list[i] # item
    /\ enrollment_store' =
          IF covered_topics_owner # 0
          THEN [enrollment_store EXCEPT
                   ![covered_topics_owner].covered_topics = Append(@, item)]
          ELSE enrollment_store
    /\ pc' = "idle"
    /\ op' = "none"
    /\ args' = None
    /\ student' = None
    /\ enrollment' = None
    /\ topic' = None
    /\ ret' = NotEnded
    /\ fault' = "none"
    /\ request' = None
    /\ interleaved' = FALSE
    /\ UNCHANGED <<student_store, topic_store, suspended, remembered, constructed, client>>

-----------------------------------------------------------------------------
(* Two requests in flight at once.  The handlers take no lock; the request *)
(* that runs may lose its turn to the other one between any two of its     *)
(* statements.  Each request has its own frame of locals.                  *)

Frame ==
    [pc |-> pc, op |-> op, args |-> args, student |-> student,
     enrollment |-> enrollment, topic |-> topic, ret |-> ret, fault |-> fault,
     request |-> request, interleaved |-> interleaved]

\* The handlers keeping `enrollment` in a module-level variable instead of a
\* local: the request that takes its turn finds the enrollment the other one
\* has assigned.
Yield_sharing_enrollment ==
    /\ suspended' = [Frame EXCEPT !.interleaved = interleaved \/ InFlight(pc)]
    /\ pc' = suspended.pc
    /\ op' = suspended.op
    /\ args' = suspended.args
    /\ student' = suspended.student
    /\ enrollment' = IF Truthy(enrollment) THEN enrollment ELSE suspended.enrollment
    /\ topic' = suspended.topic
    /\ ret' = suspended.ret
    /\ fault' = suspended.fault
    /\ request' = suspended.request
    /\ interleaved' = suspended.interleaved
    /\ UNCHANGED <<stores, remembered, constructed, client>>

\* The running request is set aside and the other one takes its turn.
Yield ==
    /\ suspended' = [Frame EXCEPT !.interleaved = interleaved \/ InFlight(pc)]
    /\ pc' = suspended.pc
    /\ op' = suspended.op
    /\ args' = suspended.args
    /\ student' = suspended.student
    /\ enrollment' = suspended.enrollment
    /\ topic' = suspended.topic
    /\ ret' = suspended.ret
    /\ fault' = suspended.fault
    /\ request' = suspended.request
    /\ interleaved' = suspended.interleaved
    /\ UNCHANGED <<stores, remembered, constructed, client>>

-----------------------------------------------------------------------------
(* Models/pydantic_models.py: an Enrollment is constructed from keyword    *)
(* arguments, as dummy_data.py does for the seed enrollment.               *)

CourseNamesGiven ==
    {None, Str(""), Str("Python Evening Batch"), Str("Modern AI Python Programming")}

EnrollmentKws ==
    {[seed_enrollment_kw EXCEPT !.course_code = c, !.section = sec,
                                !.course_name = n, !.next_class_time = t] :
        c \in CourseCode, sec \in CourseSection, n \in CourseNamesGiven,
        t \in {None, seed_enrollment_kw.next_class_time}}

Construct(kw, draw) ==
    /\ pc = "idle"
    /\ constructed' = [kw |-> kw, instance |-> build_enrollment_store(<<kw>>, draw)[1]]
    /\ UNCHANGED <<stores, pc, op, args, student, enrollment, topic, ret, fault,
                   request, interleaved, suspended, remembered, client>>

-----------------------------------------------------------------------------
(* client/alternative_client.py: main() and run_alternative_client().      *)
(* What the server answers is an input of the client: each approach        *)
(* returns one of Results, the read of the profile one of Contents.        *)

List(items) == [cls |-> "list", items |-> items]

\* Python truthiness of what an approach returns: None and [] are falsy.
ResultTruthy(x) == x # None /\ x # List(<<>>)

template == [name |-> "Get Student Profile", uriTemplate |-> uri_template]

Results ==
    {None,
     List(<<>>),
     List(<<template>>),
     [cls |-> "ListResourceTemplatesResult", resourceTemplates |-> <<template>>],
     [cls |-> "ListResourcesResult", resources |-> <<>>]}

Contents == {None, Str("{\"success\": true}")}

NotStarted ==
    [pc |-> "main", resource_templates |-> None, ran |-> <<>>,
     read_attempted |-> FALSE, content |-> None, error |-> "none",
     log |-> {}, exit_status |-> 0]

server == <<stores, pc, op, args, student, enrollment, topic, ret, fault,
            request, interleaved, suspended, remembered, constructed>>

Log(message) == client.log \cup {message}

\* main(): asyncio.run(run_alternative_client()); an exception of asyncio.run
\* itself is raised in main.
main_run(raised) ==
    /\ client.pc = "main"
    /\ client' = IF raised
                 THEN [client EXCEPT !.pc = "main_except"]
                 ELSE [client EXCEPT !.pc = "connect", !.log = Log("starting")]
    /\ UNCHANGED server

\* async with MCPServerStreamableHttp(...) as mcp_server_client: the
\* connection is made, is refused, or fails otherwise.
connect(outcome) ==
    /\ client.pc = "connect"
    /\ client' =
          CASE outcome = "connected" ->
                  [client EXCEPT !.pc = "approach_1", !.log = Log("connected")]
            [] outcome = "refused" ->
                  [client EXCEPT !.pc = "except_connection_refused",
                                 !.error = "connection_refused"]
            [] outcome = "error" ->
                  [client EXCEPT !.pc = "except_exception", !.error = "unexpected"]
    /\ UNCHANGED server

\* result = await test_resource_templates_approach_1(...); if result: ...
approach_1(result) ==
    /\ client.pc = "approach_1"
    /\ client' =
          [client EXCEPT
              !.ran = Append(@, [approach |-> 1, result |-> result]),
              !.resource_templates = IF ResultTruthy(result) THEN result ELSE @,
              !.pc = "approach_2"]
    /\ UNCHANGED server

\* Approach 2 run whatever approach 1 returned.
approach_2_unguarded(result) ==
    /\ client.pc = "approach_2"
    /\ client' =
          [client EXCEPT
              !.ran = Append(@, [approach |-> 2, result |-> result]),
              !.resource_templates = IF ResultTruthy(result) THEN result ELSE @,
              !.pc = "approach_3"]
    /\ UNCHANGED server

\* if not resource_templates: result = await ...approach_2(...); if result: ...
approach_2(result) ==
    /\ client.pc = "approach_2"
    /\ client' =
          IF ~ResultTruthy(client.resource_templates)
          THEN [client EXCEPT
                   !.ran = Append(@, [approach |-> 2, result |-> result]),
                   !.resource_templates = IF ResultTruthy(result) THEN result ELSE @,
                   !.pc = "approach_3"]
          ELSE [client EXCEPT !.pc = "approach_3"]
    /\ UNCHANGED server

\* if not resource_templates: result = await ...approach_3(...); if result: ...
approach_3(result) ==
    /\ client.pc = "approach_3"
    /\ client' =
          IF ~ResultTruthy(client.resource_templates)
          THEN [client EXCEPT
                   !.ran = Append(@, [approach |-> 3, result |-> result]),
                   !.resource_templates = IF ResultTruthy(result) THEN result ELSE @,
                   !.pc = "display"]
          ELSE [client EXCEPT !.pc = "display"]
    /\ UNCHANGED server

\* The templates of a result, by its format; None for an unknown one.
templates_of(resource_templates) ==
    IF "resourceTemplates" \in DOMAIN resource_templates
    THEN List(resource_templates.resourceTemplates)
    ELSE IF "resource_templates" \in DOMAIN resource_templates
         THEN List(resource_templates.resource_templates)
         ELSE IF resource_templates.cls = "list"
              THEN resource_templates
              ELSE None

\* if resource_templates: ... else: logger.warning(...)
display ==
    /\ client.pc = "display"
    /\ client' =
          [client EXCEPT
              !.pc = "read",
              !.log = IF ResultTruthy(client.resource_templates)
                      THEN IF ResultTruthy(templates_of(client.resource_templates))
                           THEN Log("templates_listed")
                           ELSE Log("templates_in_unknown_format")
                      ELSE Log("templates_not_retrieved")]
    /\ UNCHANGED server

\* content = await test_read_resource_robust(..., "students://S123/profile"),
\* which answers None when every URI variation failed.
read_profile(content) ==
    /\ client.pc = "read"
    /\ client' =
          [client EXCEPT
              !.pc = "leave",
              !.read_attempted = TRUE,
              !.content = content,
              !.log = IF StrTruthy(content)
                      THEN Log("profile_retrieved")
                      ELSE Log("profile_not_retrieved")]
    /\ UNCHANGED server

\* The async with block is left; closing the connection may raise.
leave(raised) ==
    /\ client.pc = "leave"
    /\ client' = IF raised
                 THEN [client EXCEPT !.pc = "except_exception", !.error = "unexpected"]
                 ELSE [client EXCEPT !.pc = "returned"]
    /\ UNCHANGED server

\* except ConnectionRefusedError: logger.error(...)
except_connection_refused ==
    /\ client.pc = "except_connection_refused"
    /\ client' = [client EXCEPT !.pc = "returned", !.log = Log("connection_refused")]
    /\ UNCHANGED server

\* except Exception as e: logger.error(...)
except_exception ==
    /\ client.pc = "except_exception"
    /\ client' = [client EXCEPT !.pc = "returned", !.log = Log("unexpected_error")]
    /\ UNCHANGED server

\* main(): logger.info("Alternative client completed successfully")
main_completed ==
    /\ client.pc = "returned"
    /\ client' = [client EXCEPT !.pc = "exited", !.log = Log("completed_successfully")]
    /\ UNCHANGED server

\* main(): except KeyboardInterrupt, which no handler of
\* run_alternative_client catches.
main_interrupted ==
    /\ client.pc \notin {"main", "main_except", "returned", "exited"}
    /\ client' = [client EXCEPT !.pc = "exited", !.log = Log("interrupted")]
    /\ UNCHANGED server

\* main(): except Exception: logger.error(...); exit(1)
main_fatal ==
    /\ client.pc = "main_except"
    /\ client' = [client EXCEPT !.pc = "exited", !.log = Log("fatal_error"),
                                !.exit_status = 1]
    /\ UNCHANGED server

-----------------------------------------------------------------------------
(* Specifications *)

Init ==
    /\ student_store \in InjSeqs(StudentPool, MaxStudents)
    /\ \E kws \in InjSeqs(EnrollmentKwPool, MaxEnrollments), draw \in UuidDraws :
          enrollment_store = build_enrollment_store(kws, draw)
    /\ topic_store \in InjSeqs(TopicPool, MaxTopics)
    /\ pc = "idle"
    /\ op = "none"
    /\ args = None
    /\ student = None
    /\ enrollment = None
    /\ topic = None
    /\ ret = NotEnded
    /\ fault = "none"
    /\ request = None
    /\ interleaved = FALSE
    /\ suspended = IdleFrame
    /\ remembered = None
    /\ constructed = None
    /\ client = NotStarted

\* Requests that reach a handler.
Accept ==
    \/ \E uri \in Uris : CallGetStudentInfo(uri)
    \/ \E name \in ToolNames, course_code \in SentCourseCodes, section \in SentSections :
          CallGetClassSchedule(name, course_code, section)
    \/ \E name \in ToolNames, course_code \in SentCourseCodes, section \in SentSections :
          CallGetNextClassTime(name, course_code, section)
    \/ \E name \in ToolNames, course_code \in SentCourseCodes :
          CallGetCourseCurrentTopic(name, course_code)
    \/ \E name \in ToolNames, student_id \in StudentIds :
          CallGetCourseCoveredTopics(name, student_id)

\* Requests that reach none.
Refuse ==
    \/ \E uri \in Uris : RejectResource(uri)
    \/ \E name \in ToolNames, arguments \in SentArguments : RejectUnknownTool(name, arguments)
    \/ \E name \in ToolNames, arguments \in SentArguments : RejectArguments(name, arguments)

Dispatch == Accept \/ Refuse

Handle(raised) ==
    \/ GsiFindStudent(raised)
    \/ GsiFindEnrollment(raised)
    \/ GsiDump(raised)
    \/ GcsScan(raised)
    \/ GcsDump(raised)
    \/ GncScan(raised)
    \/ GncTime(raised)
    \/ GctScan(raised)
    \/ GctDump(raised)
    \/ GccFindStudent(raised)
    \/ GccScan(raised)
    \/ GccBuild(raised)

\* The program as it runs: no statement of a lookup raises.
Next == Dispatch \/ Handle(FALSE) \/ Finish

Spec == Init /\ [][Next]_vars

\* The program with an exception injected at any one statement of a lookup.
NextFault == Dispatch \/ (\E raised \in BOOLEAN : Handle(raised)) \/ Finish

SpecFault == Init /\ [][NextFault]_vars

\* The server started on the data dummy_data.py seeds, and nothing else.
InitSeed == Init /\ SeedData

SpecSeed == InitSeed /\ [][Next]_vars

SpecSeedFault == InitSeed /\ [][NextFault]_vars

\* One process serving call after call on the seed data, a caller keeping
\* the outcome of one of them.
NextHistory == Dispatch \/ Handle(FALSE) \/ Finish \/ Remember

SpecHistory == InitSeed /\ [][NextHistory]_vars

\* The seed student and topic, and two sections of the seed course enrolled.
InitTwoSections ==
    /\ Init
    /\ student_store = <<seed_student>>
    /\ topic_store = <<seed_topic>>
    /\ Len(enrollment_store) = 2
    /\ \A i \in DOMAIN enrollment_store :
          enrollment_store[i].course_code = seed_enrollment_kw.course_code

\* Two callers at once, their requests interleaved at any statement (a
\* refused request runs no statement of a handler).
NextConcurrent == Accept \/ Handle(FALSE) \/ Finish \/ Yield

SpecConcurrent == InitTwoSections /\ [][NextConcurrent]_vars

\* Call after call on any store, a caller keeping the outcome of a profile
\* read.
NextAgree == Accept \/ Handle(FALSE) \/ Finish \/ RememberProfile

SpecAgree == Init /\ [][NextAgree]_vars

\* Enrollments constructed from keyword arguments of every kind.
NextConstruct == \E kw \in EnrollmentKws, draw \in UuidDraws : Construct(kw, draw)

SpecConstruct == InitSeed /\ [][NextConstruct]_vars

\* Enrollments constructed while the server serves its calls on the seed data.
NextServeAndConstruct == Dispatch \/ Handle(FALSE) \/ Finish \/ NextConstruct

SpecServeAndConstruct == InitSeed /\ [][NextServeAndConstruct]_vars

\* Call after call on the seed data, the caller appending to the
\* covered_topics list of the dicts it is handed.
NextCaller == Dispatch \/ Handle(FALSE) \/ Finish \/ CallerAppends("Added by the caller")

SpecCaller == InitSeed /\ [][NextCaller]_vars

\* One run of the alternative client.
NextClient ==
    \/ \E raised \in BOOLEAN : main_run(raised)
    \/ \E outcome \in {"connected", "refused", "error"} : connect(outcome)
    \/ \E result \in Results : approach_1(result)
    \/ \E result \in Results : approach_2(result)
    \/ \E result \in Results : approach_3(result)
    \/ display
    \/ \E content \in Contents : read_profile(content)
    \/ \E raised \in BOOLEAN : leave(raised)
    \/ except_connection_refused
    \/ except_exception
    \/ main_completed
    \/ main_interrupted
    \/ main_fatal

SpecClient == InitSeed /\ [][NextClient]_vars

-----------------------------------------------------------------------------
(* Vocabulary of the properties: what the stores hold, stated on the       *)
(* stores themselves, and how the call in hand ended.                      *)

Ended(operation) == pc = "done" /\ op = operation

Succeeded == ret.kind = "returned" /\ ret.value.success

Failed == ret.kind = "returned" /\ ~ret.value.success

ErrorCode == IF Failed THEN ret.value.error.code ELSE "none"

Min(S) == CHOOSE x \in S : \A y \in S : x <= y

StudentsWithId(id) == {i \in DOMAIN student_store : student_store[i].id = id}

EnrollmentsOfCourse(c) ==
    {i \in DOMAIN enrollment_store : enrollment_store[i].course_code = c}

EnrollmentsOfSection(c, sec) ==
    {i \in EnrollmentsOfCourse(c) : enrollment_store[i].section = sec}

TopicsOfCourse(c) == {i \in DOMAIN topic_store : topic_store[i].course_code = c}

\* The course code of the first student with this id (the id is in the store).
CourseOf(id) == student_store[Min(StudentsWithId(id))].course_code

-----------------------------------------------------------------------------
(* C1 *)

-----------------------------------------------------------------------------
(* C2 *)

\* C2: get_student_profile fails with STUDENT_NOT_FOUND exactly when no
\* student in the store has the given id, whatever the enrollment store
\* holds, and with ENROLLMENT_NOT_FOUND exactly when such a student exists
\* but no enrollment has that student's course code.
C2_ProfileNotFoundCodes ==
    Ended("get_student_profile")
    => /\ (ErrorCode = "STUDENT_NOT_FOUND") <=> (StudentsWithId(args.student_id) = {})
       /\ (ErrorCode = "ENROLLMENT_NOT_FOUND")
            <=> (/\ StudentsWithId(args.student_id) # {}
                 /\ EnrollmentsOfCourse(CourseOf(args.student_id)) = {})

\* A profile call for a student in the store has ended with
\* ENROLLMENT_NOT_FOUND while the enrollment store holds other courses.
C2_Witness ==
    /\ Ended("get_student_profile")
    /\ StudentsWithId(args.student_id) # {}
    /\ enrollment_store # <<>>
    /\ ErrorCode = "ENROLLMENT_NOT_FOUND"

-----------------------------------------------------------------------------
(* C3 *)

\* C3: in each of the five operations, an exception raised at any step of
\* the lookup (student scan, enrollment or topic scan, serialization) makes
\* the operation return success=false with error.code INTERNAL_ERROR, and
\* no other code.
C3_FaultGivesInternalError ==
    (pc = "done" /\ fault # "none") => ErrorCode = "INTERNAL_ERROR"

-----------------------------------------------------------------------------
(* C4 *)

\* C4: no exception crosses the boundary of any of the five operations:
\* every call ends by returning an envelope, never by raising.
C4_NoFaultEscapes == pc = "done" => ret.kind = "returned"

-----------------------------------------------------------------------------
(* C5 *)

\* A key is present in a dict when it is there with a value other than None.
Present(dict, key) == key \in DOMAIN dict /\ dict[key] # None

\* C5: in every returned envelope data and error are mutually exclusive:
\* success=true comes with data and without error, success=false with an
\* error of a code and a message and without data.
C5_DataErrorExclusive ==
    (pc = "done" /\ ret.kind = "returned")
    => /\ ret.value.success
            => (Present(ret.value, "data") /\ ~Present(ret.value, "error"))
       /\ ~ret.value.success
            => /\ Present(ret.value, "error")
               /\ DOMAIN ret.value.error = {"code", "message"}
               /\ ~Present(ret.value, "data")

\* A tool call has ended with the envelope of its except clause.
C5_Witness ==
    /\ Ended("get_next_class")
    /\ fault = "serialization"
    /\ ErrorCode = "INTERNAL_ERROR"

-----------------------------------------------------------------------------
(* C6 *)

\* C6: every returned envelope has all three keys success, data and error;
\* error is null on success and data is null on failure.
C6_ThreeKeys ==
    (pc = "done" /\ ret.kind = "returned")
    => /\ DOMAIN ret.value = {"success", "data", "error"}
       /\ ret.value.success => ret.value.error = None
       /\ ~ret.value.success => ret.value.data = None

-----------------------------------------------------------------------------
(* C7 *)

\* The sessions of an enrollment as the payload lists them: day and time of
\* each, in stored order.
SessionsOf(e) ==
    [k \in DOMAIN e.schedule |-> [day |-> e.schedule[k].day, time |-> e.schedule[k].time]]

\* C7: get_class_schedule(c, s) succeeds exactly when the enrollment store
\* holds an enrollment of course c and section s; the payload then carries c,
\* s and the sessions of the first such enrollment in stored order; otherwise
\* the call fails with SCHEDULE_NOT_FOUND.  On the seed data (AI-101, A)
\* gives Monday and Wednesday, both "10:00 AM - 11:30 AM", and (AI-101, B)
\* gives SCHEDULE_NOT_FOUND.
C7_ClassSchedule ==
    Ended("get_class_schedule")
    => LET hits == EnrollmentsOfSection(args.course_code, args.section) IN
       /\ Succeeded <=> hits # {}
       /\ hits # {}
            => /\ ret.value.data.course_code = args.course_code
               /\ ret.value.data.section = args.section
               /\ ret.value.data.schedule = SessionsOf(enrollment_store[Min(hits)])
       /\ hits = {} => ErrorCode = "SCHEDULE_NOT_FOUND"
       /\ (SeedData /\ args.course_code = "AI-101" /\ args.section = "A")
            => /\ Succeeded
               /\ ret.value.data.schedule =
                      <<[day |-> "Monday", time |-> "10:00 AM - 11:30 AM"],
                        [day |-> "Wednesday", time |-> "10:00 AM - 11:30 AM"]>>
       /\ (SeedData /\ args.course_code = "AI-101" /\ args.section = "B")
            => ErrorCode = "SCHEDULE_NOT_FOUND"

\* The schedule of the second of two enrollments of one course, found by its
\* section, has been returned.
C7_Witness ==
    /\ Ended("get_class_schedule")
    /\ Len(enrollment_store) = 2
    /\ enrollment_store[1].course_code = enrollment_store[2].course_code
    /\ args.course_code = enrollment_store[2].course_code
    /\ args.section = enrollment_store[2].section
    /\ Succeeded

-----------------------------------------------------------------------------
(* C8 *)

DigitValue(ch) ==
    CASE ch = "0" -> 0 [] ch = "1" -> 1 [] ch = "2" -> 2 [] ch = "3" -> 3
      [] ch = "4" -> 4 [] ch = "5" -> 5 [] ch = "6" -> 6 [] ch = "7" -> 7
      [] ch = "8" -> 8 [] ch = "9" -> 9 [] OTHER -> -1

IsDigits(text, from, to) == \A k \in from..to : DigitValue(text[k]) >= 0

Number2(text, at) == 10 * DigitValue(text[at]) + DigitValue(text[at + 1])

\* text is the ISO-8601 form YYYY-MM-DDTHH:MM:SS of the timestamp dt.
IsIso8601Of(text, dt) ==
    /\ Len(text) = 19
    /\ text[5] = "-" /\ text[8] = "-" /\ text[11] = "T"
    /\ text[14] = ":" /\ text[17] = ":"
    /\ IsDigits(text, 1, 4) /\ IsDigits(text, 6, 7) /\ IsDigits(text, 9, 10)
    /\ IsDigits(text, 12, 13) /\ IsDigits(text, 15, 16) /\ IsDigits(text, 18, 19)
    /\ 100 * Number2(text, 1) + Number2(text, 3) = dt.year
    /\ Number2(text, 6) = dt.month
    /\ Number2(text, 9) = dt.day
    /\ Number2(text, 12) = dt.hour
    /\ Number2(text, 15) = dt.minute
    /\ Number2(text, 18) = dt.second

\* C8: get_next_class(c, s) fails with SCHEDULE_NOT_FOUND when no enrollment
\* matches c and s, fails with NO_NEXT_CLASS when the first matching
\* enrollment has no next_class_time, and otherwise succeeds with
\* next_class_time the ISO-8601 form of that enrollment's timestamp and
\* instructor that enrollment's instructor.  On the seed data (AI-101, A)
\* succeeds with "2025-06-09T10:00:00" and instructor "Sajid Khan".
C8_NextClass ==
    Ended("get_next_class")
    => LET hits == EnrollmentsOfSection(args.course_code, args.section) IN
       /\ hits = {} => ErrorCode = "SCHEDULE_NOT_FOUND"
       /\ (hits # {} /\ enrollment_store[Min(hits)].next_class_time = None)
            => ErrorCode = "NO_NEXT_CLASS"
       /\ (hits # {} /\ enrollment_store[Min(hits)].next_class_time # None)
            => /\ Succeeded
               /\ IsIso8601Of(ret.value.data.next_class_time,
                              enrollment_store[Min(hits)].next_class_time)
               /\ ret.value.data.instructor = enrollment_store[Min(hits)].instructor
       /\ (SeedData /\ args.course_code = "AI-101" /\ args.section = "A")
            => /\ Succeeded
               /\ ret.value.data.next_class_time =
                      <<"2", "0", "2", "5", "-", "0", "6", "-", "0", "9", "T",
                        "1", "0", ":", "0", "0", ":", "0", "0">>
               /\ ret.value.data.instructor = "Sajid Khan"

\* The next class of the seed enrollment has been returned.
C8_Witness ==
    /\ Ended("get_next_class")
    /\ SeedData
    /\ args.course_code = "AI-101" /\ args.section = "A"
    /\ Succeeded

-----------------------------------------------------------------------------
(* C9 *)

\* C9: get_course_topic(c) succeeds with the full record of the first
\* CurrentTopic of course c, and fails with TOPIC_NOT_FOUND exactly when the
\* topic store has no record for c; on the seed data AI-101 gives the topic
\* "Introduction to Lists" and AI-201, AI-202, AI-301 give TOPIC_NOT_FOUND.
C9_CourseTopic ==
    Ended("get_course_topic")
    => LET hits == TopicsOfCourse(args.course_code) IN
       /\ (ErrorCode = "TOPIC_NOT_FOUND") <=> (hits = {})
       /\ hits # {}
            => /\ Succeeded
               /\ ret.value.data =
                      [course_code |-> topic_store[Min(hits)].course_code,
                       topic |-> topic_store[Min(hits)].topic,
                       start_date |-> topic_store[Min(hits)].start_date]
       /\ (SeedData /\ args.course_code = "AI-101")
            => (Succeeded /\ ret.value.data.topic = "Introduction to Lists")
       /\ (SeedData /\ args.course_code \in {"AI-201", "AI-202", "AI-301"})
            => ErrorCode = "TOPIC_NOT_FOUND"

\* With two topic records of one course in the store, the topic of that
\* course has been returned.
C9_Witness ==
    /\ Ended("get_course_topic")
    /\ Len(topic_store) = 2
    /\ topic_store[1].course_code = topic_store[2].course_code
    /\ args.course_code = topic_store[1].course_code
    /\ Succeeded

-----------------------------------------------------------------------------
(* C10 *)

\* C10: get_covered_topics(id), for a student in the store whose course has
\* an enrollment, succeeds with student_id the input, course_code the
\* student's course code, and course_name, instructor and covered_topics (in
\* stored order) those of the first enrollment of that course; on the seed
\* data "S123" gives ["Python Basics", "Introduction to Variables"] and the
\* course_name "Modern AI Python Programming".
C10_CoveredTopics ==
    (/\ Ended("get_covered_topics")
     /\ StudentsWithId(args.student_id) # {}
     /\ EnrollmentsOfCourse(CourseOf(args.student_id)) # {})
    => LET first == enrollment_store[Min(EnrollmentsOfCourse(CourseOf(args.student_id)))] IN
       /\ Succeeded
       /\ ret.value.data.student_id = args.student_id
       /\ ret.value.data.course_code = CourseOf(args.student_id)
       /\ ret.value.data.course_name = first.course_name
       /\ ret.value.data.instructor = first.instructor
       /\ ret.value.data.covered_topics = first.covered_topics
       /\ (SeedData /\ args.student_id = "S123")
            => /\ ret.value.data.covered_topics =
                      <<"Python Basics", "Introduction to Variables">>
               /\ ret.value.data.course_name =
                      [cls |-> "str", value |-> "Modern AI Python Programming"]

\* The covered topics of the seed student have been returned.
C10_Witness ==
    /\ Ended("get_covered_topics")
    /\ SeedData
    /\ args.student_id = "S123"
    /\ Succeeded

-----------------------------------------------------------------------------
\* C11: each of the five operations is idempotent: within one process, a
\* repetition of a request returns the envelope the same request returned
\* before, whatever requests were served in between.
C11_Idempotent ==
    (/\ pc = "done"
     /\ remembered # None
     /\ request = remembered.request)
    => ret = remembered.ret

\* A repetition of an earlier get_covered_topics request has succeeded.
C11_Witness ==
    /\ pc = "done"
    /\ remembered # None
    /\ request = remembered.request
    /\ op = "get_covered_topics"
    /\ Succeeded

-----------------------------------------------------------------------------
\* C12: no operation has a side effect on the Domain Store: no step of any
\* request changes student_store, enrollment_store or topic_store, so after
\* any finite sequence of calls the three stores hold the records they held
\* when the process was seeded, in the same order and with the same fields.
C12_StoresNeverChange == [][stores' = stores]_vars

\* A get_next_class request has succeeded on a store of two enrollments.
C12_Witness ==
    /\ Ended("get_next_class")
    /\ Succeeded
    /\ Len(enrollment_store) = 2
    /\ Len(student_store) > 0
    /\ Len(topic_store) > 0

-----------------------------------------------------------------------------
\* C13: the lookups need no lock: of two requests that are the same, served
\* to two callers, one of them executed alone (no other request in flight
\* from its dispatch to its end) and the other with its statements
\* interleaved in any order with another request's, both return the same
\* envelope.
C13_InterleavedAsAlone ==
    (/\ pc = "done"
     /\ suspended.pc = "done"
     /\ request = suspended.request
     /\ ~interleaved \/ ~suspended.interleaved)
    => ret = suspended.ret

\* A get_student_profile request executed alone and the same request
\* interleaved with another one have both succeeded.
C13_Witness ==
    /\ pc = "done"
    /\ suspended.pc = "done"
    /\ request = suspended.request
    /\ ~interleaved
    /\ suspended.interleaved
    /\ op = "get_student_profile"
    /\ Succeeded

-----------------------------------------------------------------------------
\* C14: a call of get_class_schedule, get_next_class or get_course_topic
\* whose course code is not a member of CourseCode, or whose section is not
\* a member of CourseSection, is refused by the validation of its arguments:
\* no statement of the lookup runs and no envelope, SCHEDULE_NOT_FOUND and
\* TOPIC_NOT_FOUND included, answers it.
C14_OutOfEnumRejected ==
    (/\ request # None
     /\ request.kind = "tool"
     /\ request.name \in {"get_class_schedule", "get_next_class", "get_course_topic"}
     /\ \/ request.arguments.course_code \notin CourseCode
        \/ /\ "section" \in DOMAIN request.arguments
           /\ request.arguments.section \notin CourseSection)
    => /\ pc = "rejected"
       /\ op = "none"
       /\ ret = Rejected

\* A get_next_class call for section "D" of a known course has been refused.
C14_Witness ==
    /\ pc = "rejected"
    /\ request.kind = "tool"
    /\ request.name = "get_next_class"
    /\ request.arguments.course_code \in CourseCode
    /\ request.arguments.section = "D"

-----------------------------------------------------------------------------
\* C15: every lookup resolves to the first matching record in insertion
\* order, never to a later one: get_student_profile and get_covered_topics
\* both use the first enrollment stored for the student's course, whatever
\* its section, and get_course_topic returns the first CurrentTopic stored
\* for the course code.
C15_FirstMatchWins ==
    /\ (Ended("get_student_profile") /\ Succeeded)
          => LET i == Min(EnrollmentsOfCourse(CourseOf(args.student_id))) IN
             /\ ret.value.data.enrollment.id = enrollment_store[i].id
             /\ ret.value.data.enrollment.section = enrollment_store[i].section
    /\ (Ended("get_covered_topics") /\ Succeeded)
          => LET i == Min(EnrollmentsOfCourse(CourseOf(args.student_id))) IN
             /\ ret.value.data.instructor = enrollment_store[i].instructor
             /\ ret.value.data.covered_topics = enrollment_store[i].covered_topics
    /\ (Ended("get_course_topic") /\ Succeeded)
          => LET i == Min(TopicsOfCourse(args.course_code)) IN
             ret.value.data.topic = topic_store[i].topic

\* The profile of a student whose course is enrolled in two sections has been
\* returned.
C15_Witness ==
    /\ Ended("get_student_profile")
    /\ Succeeded
    /\ Cardinality(EnrollmentsOfCourse(CourseOf(args.student_id))) = 2

-----------------------------------------------------------------------------
\* C16: the code of every failure envelope is one of STUDENT_NOT_FOUND,
\* ENROLLMENT_NOT_FOUND, SCHEDULE_NOT_FOUND, NO_NEXT_CLASS, TOPIC_NOT_FOUND
\* and INTERNAL_ERROR, and an operation fails only with the codes listed for
\* it or with INTERNAL_ERROR, an exception inside the call or not.
ListedCodes ==
    [get_student_profile |-> {"STUDENT_NOT_FOUND", "ENROLLMENT_NOT_FOUND"},
     get_covered_topics |-> {"STUDENT_NOT_FOUND", "ENROLLMENT_NOT_FOUND"},
     get_class_schedule |-> {"SCHEDULE_NOT_FOUND"},
     get_next_class |-> {"SCHEDULE_NOT_FOUND", "NO_NEXT_CLASS"},
     get_course_topic |-> {"TOPIC_NOT_FOUND"}]

C16_ClosedErrorSet ==
    (pc = "done" /\ Failed)
    => /\ ErrorCode \in {"STUDENT_NOT_FOUND", "ENROLLMENT_NOT_FOUND",
                         "SCHEDULE_NOT_FOUND", "NO_NEXT_CLASS",
                         "TOPIC_NOT_FOUND", "INTERNAL_ERROR"}
       /\ ErrorCode \in ListedCodes[op] \cup {"INTERNAL_ERROR"}

\* get_next_class has failed with NO_NEXT_CLASS.
C16_Witness ==
    /\ Ended("get_next_class")
    /\ ErrorCode = "NO_NEXT_CLASS"

-----------------------------------------------------------------------------
\* C17: the student profile is the one operation addressed as a resource: a
\* read of students://{student_id}/profile, and nothing else, runs the
\* get_student_profile lookup, with the student id bound to the path segment
\* in the braces, and is answered with the lookup's envelope; the other four
\* lookups run for a tool call under exactly the names get_class_schedule,
\* get_next_class, get_course_topic and get_covered_topics, and for no
\* resource read.
ToolOperations ==
    {"get_class_schedule", "get_next_class", "get_course_topic", "get_covered_topics"}

IsProfileUri(uri) ==
    /\ uri.scheme = "students"
    /\ Len(uri.segments) = 2
    /\ uri.segments[2] = "profile"

C17_Addressing ==
    /\ op = "get_student_profile"
          => /\ request.kind = "resource"
             /\ IsProfileUri(request.uri)
             /\ args.student_id = request.uri.segments[1]
             /\ (pc = "done" /\ Succeeded)
                   => DOMAIN ret.value.data = {"student", "enrollment"}
    /\ op \in ToolOperations
          => /\ request.kind = "tool"
             /\ request.name = op
    /\ (request # None /\ request.kind = "resource")
          => IF IsProfileUri(request.uri)
             THEN op = "get_student_profile"
             ELSE pc = "rejected" /\ op = "none"
    /\ (request # None /\ request.kind = "tool" /\ request.name \notin ToolOperations)
          => pc = "rejected" /\ op = "none"

\* A read of students://S123/profile has been answered with the profile.
C17_Witness ==
    /\ Ended("get_student_profile")
    /\ Succeeded
    /\ request = ReadResource(Uri("students", <<"S123", "profile">>))
    /\ ret.value.data.student.id = "S123"

-----------------------------------------------------------------------------
\* C18: the seed data is compiled-in constants: any two starts of the
\* process seed field-for-field identical stores, so get_student_profile("S123"),
\* whose payload carries the enrollment id and the todo ids, returns in
\* this process the envelope it returns in any other start (one that draws
\* its uuids from any stream d).
C18_SameSeedEveryStart ==
    (/\ SeedData
     /\ Ended("get_student_profile")
     /\ args.student_id = "S123"
     /\ Succeeded)
    => \A d \in UuidDraws :
          LET other_store == build_enrollment_store(<<seed_enrollment_kw>>, d) IN
          /\ enrollment_store = other_store
          /\ ret.value.data.enrollment = Enrollment_model_dump(other_store[1])

-----------------------------------------------------------------------------
\* C19: when an Enrollment is constructed, course_name is filled from the
\* course-code to title table only if it was not given: a course_name given
\* in the keyword arguments, the empty string included, is the course_name
\* of the instance, and an Enrollment constructed without one has the title
\* the table holds for its course code.
C19_GivenCourseNameKept ==
    constructed # None
    => /\ constructed.kw.course_name # None
            => constructed.instance.course_name = constructed.kw.course_name
       /\ constructed.kw.course_name = None
            => constructed.instance.course_name =
                   _course_titles[constructed.kw.course_code]

-----------------------------------------------------------------------------
\* C20: get_covered_topics and get_student_profile agree on every student id
\* and every content of the stores: both succeed or both fail, a failure with
\* the same error code, and on success the course_code, course_name,
\* instructor and covered_topics of get_covered_topics are those of the
\* enrollment in the profile payload.
C20_CoveredTopicsAgreeWithProfile ==
    (/\ Ended("get_covered_topics")
     /\ remembered # None
     /\ remembered.request.kind = "resource"
     /\ remembered.request.uri.segments[1] = args.student_id)
    => LET profile == remembered.ret.value
           covered == ret.value
       IN  /\ covered.success = profile.success
           /\ ~profile.success => covered.error.code = profile.error.code
           /\ profile.success
                => /\ covered.data.course_code = profile.data.enrollment.course_code
                   /\ covered.data.course_name = profile.data.enrollment.course_name
                   /\ covered.data.instructor = profile.data.enrollment.instructor
                   /\ covered.data.covered_topics = profile.data.enrollment.covered_topics

\* The profile of a student was read, and then the covered topics of the same
\* student have been returned, the course being enrolled in two sections.
C20_Witness ==
    /\ Ended("get_covered_topics")
    /\ Succeeded
    /\ remembered # None
    /\ remembered.request.kind = "resource"
    /\ remembered.request.uri.segments[1] = args.student_id
    /\ remembered.ret.value.success
    /\ Cardinality(EnrollmentsOfCourse(CourseOf(args.student_id))) = 2

-----------------------------------------------------------------------------
\* C21: the envelope of a successful get_covered_topics shares no mutable
\* structure with the Domain Store: after a caller has appended to the
\* covered_topics list it was handed, no stored enrollment holds the
\* appended item, and no later call of get_covered_topics or
\* get_student_profile returns it.
HoldsCallerItem(topics) ==
    \E i \in DOMAIN topics : topics[i] = "Added by the caller"

C21_ReturnedListNotShared ==
    /\ \A k \in DOMAIN enrollment_store :
          ~HoldsCallerItem(enrollment_store[k].covered_topics)
    /\ (Ended("get_covered_topics") /\ Succeeded)
          => ~HoldsCallerItem(ret.value.data.covered_topics)
    /\ (Ended("get_student_profile") /\ Succeeded)
          => ~HoldsCallerItem(ret.value.data.enrollment.covered_topics)

-----------------------------------------------------------------------------
\* C22: every Enrollment has a course_name that is not None once it is
\* constructed, whichever of AI-101, AI-201, AI-202 and AI-301 its course
\* code and whatever course_name it was given (none, "", or a name): the
\* title table has a title for every member of CourseCode.  So no stored
\* enrollment has a None course_name, and a successful get_covered_topics
\* never returns one.
C22_CourseNameNeverNone ==
    /\ constructed # None => constructed.instance.course_name # None
    /\ \A k \in DOMAIN enrollment_store : enrollment_store[k].course_name # None
    /\ (Ended("get_covered_topics") /\ Succeeded)
          => ret.value.data.course_name # None

\* An AI-301 enrollment has been constructed without a course_name, and
\* get_covered_topics has succeeded.
C22_Witness ==
    /\ constructed # None
    /\ constructed.kw.course_code = "AI-301"
    /\ constructed.kw.course_name = None
    /\ Ended("get_covered_topics")
    /\ Succeeded

-----------------------------------------------------------------------------
\* C23: run_alternative_client tries the three resource-template approaches
\* strictly in the order 1, 2, 3: an approach runs only if every approach
\* before it has run and returned a falsy result (None or an empty list), so
\* none runs after a truthy result; and the read of students://S123/profile
\* is attempted after the approaches, templates retrieved or not.
C23_ApproachOrder ==
    LET ran == client.ran IN
    /\ \A i \in DOMAIN ran : ran[i].approach = i
    /\ \A i \in DOMAIN ran : i < Len(ran) => ~ResultTruthy(ran[i].result)
    /\ client.read_attempted
          => /\ Len(ran) >= 1
             /\ Len(ran) = 3 \/ ResultTruthy(ran[Len(ran)].result)
    /\ client.pc = "leave" => client.read_attempted

\* Approach 1 returned an empty list, approach 2 a result, approach 3 was
\* not run, and the profile has been read.
C23_Witness ==
    /\ Len(client.ran) = 2
    /\ client.ran[1].result = List(<<>>)
    /\ ResultTruthy(client.ran[2].result)
    /\ client.read_attempted
    /\ client.pc = "returned"

\* C24: main() of the alternative client logs "Alternative client completed
\* successfully" only if run_alternative_client met no connection-refused
\* and no unexpected error; when one occurred during the run, main() exits
\* with status 1.
C24_SuccessOnlyWithoutError ==
    /\ "completed_successfully" \in client.log => client.error = "none"
    /\ (client.pc = "exited" /\ client.error # "none" /\ "interrupted" \notin client.log)
          => client.exit_status = 1

====
